---- MODULE Spec2Model ----
(***************************************************************************)
(* Model of the IRC message layer of ircd (src/src/structs.rs):            *)
(*   IrcMessage::try_from   wire line  -> IrcMessage | error               *)
(*   IrcMessage::to_line    IrcMessage -> wire line                        *)
(*   IrcMessage::to_command IrcMessage -> Command | ParseError             *)
(*   Reply::as_line         Reply      -> wire line                        *)
(* A text (&str / String) is a sequence of one-character strings; byte     *)
(* offsets are 0-based as in the source.                                   *)
(***************************************************************************)
EXTENDS Integers, Sequences, FiniteSets, TLC

VARIABLES op, arg, ret, pc

vars == <<op, arg, ret, pc>>

----------------------------------------------------------------------------
(* Bounds of the explored inputs *)

MaxLineLen == 6
MaxTextLen == 1
MaxParams == 2
MaxCommandParams == 5

(* Characters of the explored lines and message texts *)
Chars == {":", " ", "a", "b"}
TextChars == {":", " ", "a"}

TextsUpTo(cs, n) == UNION {[1..k -> cs] : k \in 0..n}

Lines == TextsUpTo(Chars, MaxLineLen)

----------------------------------------------------------------------------
(* Option<T>, Result<T, E> *)

None == [some |-> FALSE, val |-> <<>>]
Some(x) == [some |-> TRUE, val |-> x]

Ok(v) == [ok |-> TRUE, val |-> v]
Err(e) == [ok |-> FALSE, err |-> e]

(* The error texts of try_from *)
ErrEmpty == "IRC message may not be empty"
ErrPrefix == "Found prefix indication, followed by invalid prefix"

----------------------------------------------------------------------------
(* str primitives *)

Min(S) == CHOOSE x \in S : \A y \in S : x <= y

\* &s[a..b]
Slice(s, a, b) == SubSeq(s, a + 1, b)

\* &s[a..]
SliceFrom(s, a) == SubSeq(s, a + 1, Len(s))

\* the offsets at which pat occurs in s
Occurrences(s, pat) ==
    {i \in 0..(Len(s) - Len(pat)) : Slice(s, i, i + Len(pat)) = pat}

\* s.find(pat): Some(offset of the first occurrence) or None
find(s, pat) ==
    IF Occurrences(s, pat) = {} THEN None ELSE Some(Min(Occurrences(s, pat)))

\* split as split_whitespace would do it: empty pieces dropped
RECURSIVE split_DropEmpty(_)
split_DropEmpty(s) ==
    LET sp == find(s, <<" ">>)
        piece == IF sp.some THEN Slice(s, 0, sp.val) ELSE s
        more == IF sp.some THEN split_DropEmpty(SliceFrom(s, sp.val + 1))
                ELSE <<>>
    IN  IF s = <<>> THEN <<>>
        ELSE IF piece = <<>> THEN more
        ELSE <<piece>> \o more

\* s.split(" ").collect(): always at least one piece, empty pieces kept
RECURSIVE split(_)
split(s) ==
    LET sp == find(s, <<" ">>)
    IN  IF sp.some
        THEN <<Slice(s, 0, sp.val)>> \o split(SliceFrom(s, sp.val + 1))
        ELSE <<s>>

----------------------------------------------------------------------------
(* IrcMessage::try_from *)

IrcMessage(prefix, command, command_parameters) ==
    [prefix |-> prefix, command |-> command,
     command_parameters |-> command_parameters]

\* ParsePrefix with the prefix slice taken from the colon on
ParsePrefix_KeepColon(s) ==
    IF find(s, <<":">>) = Some(0)
    THEN LET start == 1
             prefix_end == find(SliceFrom(s, start), <<" ">>)
         IN  IF prefix_end = None \/ prefix_end = Some(0)
             THEN [failed |-> TRUE, prefix |-> None, start |-> start]
             ELSE [failed |-> FALSE,
                   prefix |-> Some(Slice(s, 0, prefix_end.val + 1)),
                   start |-> start + prefix_end.val + 1]
    ELSE [failed |-> FALSE, prefix |-> None, start |-> 0]

\* ParsePrefix that rejects only a missing space, not an empty prefix
ParsePrefix_AllowEmpty(s) ==
    IF find(s, <<":">>) = Some(0)
    THEN LET start == 1
             prefix_end == find(SliceFrom(s, start), <<" ">>)
         IN  IF prefix_end = None
             THEN [failed |-> TRUE, prefix |-> None, start |-> start]
             ELSE [failed |-> FALSE,
                   prefix |-> Some(Slice(s, start, prefix_end.val + 1)),
                   start |-> start + prefix_end.val + 1]
    ELSE [failed |-> FALSE, prefix |-> None, start |-> 0]

\* the optional prefix: [failed, prefix, start]
ParsePrefix(s) ==
    IF find(s, <<":">>) = Some(0)
    THEN LET start == 1
             prefix_end == find(SliceFrom(s, start), <<" ">>)
         IN  IF prefix_end = None \/ prefix_end = Some(0)
             THEN [failed |-> TRUE, prefix |-> None, start |-> start]
             ELSE [failed |-> FALSE,
                   prefix |-> Some(Slice(s, start, prefix_end.val + 1)),
                   start |-> start + prefix_end.val + 1]
    ELSE [failed |-> FALSE, prefix |-> None, start |-> 0]

\* ParseCommand that also steps over the space that follows the command
ParseCommand_SkipSpace(s, start) ==
    LET sp == find(SliceFrom(s, start), <<" ">>)
        idx == IF sp.some THEN sp.val ELSE Len(SliceFrom(s, start))
    IN  [command |-> Slice(s, start, start + idx),
         start |-> IF sp.some THEN start + idx + 1 ELSE start + idx]

\* the command: [command, start]; start is left AT the space after it
ParseCommand(s, start) ==
    LET sp == find(SliceFrom(s, start), <<" ">>)
        idx == IF sp.some THEN sp.val ELSE Len(SliceFrom(s, start))
    IN  [command |-> Slice(s, start, start + idx), start |-> start + idx]

\* ParseParameters with rfind: the LAST " :" taken as the trailing marker
ParseParameters_LastMarker(s, start) ==
    LET occ == Occurrences(SliceFrom(s, start), <<" ", ":">>)
        tr == IF occ = {} THEN None
              ELSE Some(CHOOSE i \in occ : \A j \in occ : j <= i)
        trailer == IF tr.some THEN Some(SliceFrom(s, start + tr.val + 2))
                   ELSE None
        end == IF tr.some THEN start + tr.val ELSE Len(s)
        command_parameters ==
            IF start < end THEN split(Slice(s, start + 1, end)) ELSE <<>>
    IN  IF trailer.some THEN Append(command_parameters, trailer.val)
        ELSE command_parameters

\* the command parameters, from the space that follows the command
ParseParameters(s, start) ==
    LET tr == find(SliceFrom(s, start), <<" ", ":">>)
        trailer == IF tr.some THEN Some(SliceFrom(s, start + tr.val + 2))
                   ELSE None
        end == IF tr.some THEN start + tr.val ELSE Len(s)
        command_parameters ==
            IF start < end THEN split(Slice(s, start + 1, end)) ELSE <<>>
    IN  IF trailer.some THEN Append(command_parameters, trailer.val)
        ELSE command_parameters

try_from(s) ==
    IF s = <<>> THEN Err(ErrEmpty)
    ELSE LET pre == ParsePrefix(s)
         IN  IF pre.failed THEN Err(ErrPrefix)
             ELSE LET cmd == ParseCommand(s, pre.start)
                  IN  Ok(IrcMessage(pre.prefix, cmd.command,
                                    ParseParameters(s, cmd.start)))

----------------------------------------------------------------------------
(* The ranges try_from slices s with.  &s[lo..hi] and &s[lo..] (hi =      *)
(* s.len()) panic unless lo <= hi <= s.len(); each range is recorded with *)
(* the source line that takes it.                                         *)

Range(line, lo, hi) == [line |-> line, lo |-> lo, hi |-> hi]

\* the ranges taken while reading the prefix
PrefixSlices(s) ==
    IF find(s, <<":">>) = Some(0)
    THEN LET start == 1
             prefix_end == find(SliceFrom(s, start), <<" ">>)
         IN  IF prefix_end = None \/ prefix_end = Some(0)
             THEN {Range(78, start, Len(s))}
             ELSE {Range(78, start, Len(s)),
                   Range(87, start, prefix_end.val + 1)}
    ELSE {}

\* the ranges taken while reading the command
CommandSlices(s, start) ==
    LET sp == find(SliceFrom(s, start), <<" ">>)
        idx == IF sp.some THEN sp.val ELSE Len(SliceFrom(s, start))
    IN  {Range(101, start, Len(s)), Range(102, start, start + idx)}

\* ParameterSlices without the `start < end` guard before the split
ParameterSlices_Unguarded(s, start) ==
    LET tr == find(SliceFrom(s, start), <<" ", ":">>)
        end == IF tr.some THEN start + tr.val ELSE Len(s)
    IN  {Range(117, start, Len(s))}
        \cup (IF tr.some THEN {Range(118, start + tr.val + 2, Len(s))} ELSE {})
        \cup {Range(129, start + 1, end)}

\* the ranges taken while reading the command parameters
ParameterSlices(s, start) ==
    LET tr == find(SliceFrom(s, start), <<" ", ":">>)
        end == IF tr.some THEN start + tr.val ELSE Len(s)
    IN  {Range(117, start, Len(s))}
        \cup (IF tr.some THEN {Range(118, start + tr.val + 2, Len(s))} ELSE {})
        \cup (IF start < end THEN {Range(129, start + 1, end)} ELSE {})

\* every range one call of try_from takes, along the path the call follows
try_from_slices(s) ==
    IF s = <<>> THEN {}
    ELSE LET pre == ParsePrefix(s)
         IN  IF pre.failed THEN PrefixSlices(s)
             ELSE LET cmd == ParseCommand(s, pre.start)
                  IN  PrefixSlices(s) \cup CommandSlices(s, pre.start)
                          \cup ParameterSlices(s, cmd.start)

----------------------------------------------------------------------------
(* IrcMessage::to_line *)

CRLF == <<"\r", "\n">>

\* [&str]::join(sep)
RECURSIVE join(_, _)
join(strs, sep) ==
    IF strs = <<>> THEN <<>>
    ELSE IF Len(strs) = 1 THEN Head(strs)
    ELSE Head(strs) \o sep \o join(Tail(strs), sep)

\* to_line as the first draft wrote it: parameters joined, no colon
to_line_NoColon(self) ==
    LET head == (IF self.prefix.some
                 THEN <<":">> \o self.prefix.val \o <<" ">>
                 ELSE <<>>) \o self.command
    IN  IF Len(self.command_parameters) > 0
        THEN head \o <<" ">> \o join(self.command_parameters, <<" ">>) \o CRLF
        ELSE head \o CRLF

\* to_line with the colon only on a last parameter that needs it
to_line_ColonWhenNeeded(self) ==
    LET head == (IF self.prefix.some
                 THEN <<":">> \o self.prefix.val \o <<" ">>
                 ELSE <<>>) \o self.command
        n == Len(self.command_parameters)
        last == self.command_parameters[n]
        needed == last = <<>> \/ last[1] = ":" \/ \E i \in 1..Len(last) : last[i] = " "
        last_param == IF needed THEN <<":">> \o last ELSE last
        params == Append(SubSeq(self.command_parameters, 1, n - 1), last_param)
    IN  IF n > 0
        THEN head \o <<" ">> \o join(params, <<" ">>) \o CRLF
        ELSE head \o CRLF

to_line(self) ==
    LET head == (IF self.prefix.some
                 THEN <<":">> \o self.prefix.val \o <<" ">>
                 ELSE <<>>) \o self.command
        n == Len(self.command_parameters)
        drained == SubSeq(self.command_parameters, 1, n - 1)
        last_param == <<":">> \o self.command_parameters[n]
        params == Append(drained, last_param)
    IN  IF n > 0
        THEN head \o <<" ">> \o join(params, <<" ">>) \o CRLF
        ELSE head \o CRLF

----------------------------------------------------------------------------
(* IrcMessage::to_command *)

PASS == <<"P", "A", "S", "S">>
NICK == <<"N", "I", "C", "K">>
USER == <<"U", "S", "E", "R">>

UnknownCommandError(command) ==
    [kind |-> "UnknownCommand", command |-> command]

MissingCommandParameterError(command, parameter, index) ==
    [kind |-> "MissingCommandParameter", command |-> command,
     parameter |-> parameter, index |-> index]

Command(tag, fields) == [tag |-> tag, fields |-> fields]

\* get_command_parameter reporting the position 1-based
get_command_parameter_OneBased(self, idx, name) ==
    IF idx < Len(self.command_parameters)
    THEN Ok(self.command_parameters[idx + 1])
    ELSE Err(MissingCommandParameterError(self.command, name, idx + 1))

get_command_parameter(self, idx, name) ==
    IF idx < Len(self.command_parameters)
    THEN Ok(self.command_parameters[idx + 1])
    ELSE Err(MissingCommandParameterError(self.command, name, idx))

\* the arm selected by starts_with instead of equality
match_arm_StartsWith(command) ==
    IF Len(command) >= 4 /\ SubSeq(command, 1, 4) = PASS THEN "PASS"
    ELSE IF Len(command) >= 4 /\ SubSeq(command, 1, 4) = NICK THEN "NICK"
    ELSE IF Len(command) >= 4 /\ SubSeq(command, 1, 4) = USER THEN "USER"
    ELSE "_"

\* the arm `match self.command` selects: exact, case-sensitive comparison
match_arm(command) ==
    IF command = PASS THEN "PASS"
    ELSE IF command = NICK THEN "NICK"
    ELSE IF command = USER THEN "USER"
    ELSE "_"

to_command(self) ==
    IF match_arm(self.command) = "PASS"
    THEN LET password == get_command_parameter(self, 0, "password")
         IN  IF ~password.ok THEN password
             ELSE Ok(Command("PASS", <<password.val>>))
    ELSE IF match_arm(self.command) = "NICK"
    THEN LET nick == get_command_parameter(self, 0, "nick")
         IN  IF ~nick.ok THEN nick
             ELSE Ok(Command("NICK", <<nick.val>>))
    ELSE IF match_arm(self.command) = "USER"
    THEN LET user == get_command_parameter(self, 0, "user")
             mode == get_command_parameter(self, 1, "mode")
             unused == get_command_parameter(self, 2, "unused")
             realname == get_command_parameter(self, 3, "realname")
         IN  IF ~user.ok THEN user
             ELSE IF ~mode.ok THEN mode
             ELSE IF ~unused.ok THEN unused
             ELSE IF ~realname.ok THEN realname
             ELSE Ok(Command("USER", <<user.val, mode.val,
                                       unused.val, realname.val>>))
    ELSE Err(UnknownCommandError(self.command))

----------------------------------------------------------------------------
(* Reply *)

RPL_WELCOME(nick, user, host) ==
    [tag |-> "RPL_WELCOME", fields |-> <<nick, user, host>>]
ERR_UNKNOWNCOMMAND(command) ==
    [tag |-> "ERR_UNKNOWNCOMMAND", fields |-> <<command>>]
ERR_NEEDMOREPARAMS(command) ==
    [tag |-> "ERR_NEEDMOREPARAMS", fields |-> <<command>>]

localhost == <<"l", "o", "c", "a", "l", "h", "o", "s", "t">>

WelcomeText ==
    <<"W", "e", "l", "c", "o", "m", "e", " ", "t", "o", " ", "t", "h", "e",
      " ", "n", "e", "t", "w", "o", "r", "k", " ">>
UnknownCommandText ==
    <<"U", "n", "k", "n", "o", "w", "n", " ", "c", "o", "m", "m", "a", "n",
      "d">>
NotEnoughParametersText ==
    <<"N", "o", "t", " ", "e", "n", "o", "u", "g", "h", " ", "p", "a", "r",
      "a", "m", "e", "t", "e", "r", "s">>

\* as_str with the two error numerics exchanged
as_str_Swapped(self) ==
    IF self.tag = "RPL_WELCOME" THEN <<"0", "0", "1">>
    ELSE IF self.tag = "ERR_UNKNOWNCOMMAND" THEN <<"4", "6", "1">>
    ELSE <<"4", "2", "1">>

as_str(self) ==
    IF self.tag = "RPL_WELCOME" THEN <<"0", "0", "1">>
    ELSE IF self.tag = "ERR_UNKNOWNCOMMAND" THEN <<"4", "2", "1">>
    ELSE <<"4", "6", "1">>

as_line(self) ==
    IF self.tag = "RPL_WELCOME"
    THEN LET nick == self.fields[1]
             user == self.fields[2]
             host == self.fields[3]
         IN  to_line(IrcMessage(Some(localhost), as_str(self),
                 <<nick, WelcomeText \o nick \o <<"!">> \o user
                             \o <<"@">> \o host>>))
    ELSE IF self.tag = "ERR_UNKNOWNCOMMAND"
    THEN to_line(IrcMessage(Some(localhost), as_str(self),
                            <<self.fields[1], UnknownCommandText>>))
    ELSE to_line(IrcMessage(Some(localhost), as_str(self),
                            <<self.fields[1], NotEnoughParametersText>>))

----------------------------------------------------------------------------
(* The explored inputs *)

SeqsUpTo(S, n) == UNION {[1..k -> S] : k \in 0..n}

\* messages handed to to_line: any prefix, command and parameter texts
Texts == TextsUpTo(TextChars, MaxTextLen)

PrefixTexts ==
    {<<>>, <<"a">>, <<":">>, <<" ">>, <<"a", ":">>, <<"a", " ", "b">>}

CommandTexts ==
    {<<>>, <<"a">>, <<":">>, <<" ">>, <<":", "a">>, <<"a", ":">>,
     <<"a", " ", "b">>}

Messages ==
    {IrcMessage(p, c, ps) :
        p \in {None} \cup {Some(x) : x \in PrefixTexts},
        c \in CommandTexts,
        ps \in SeqsUpTo(Texts, MaxParams)}

\* messages handed to to_command
CommandNames ==
    {PASS, NICK, USER, <<>>, <<"p", "a", "s", "s">>, <<"N", "i", "c", "k">>,
     <<"U", "S", "E", "R", "S">>, <<"U", "S", "E">>, <<"F", "O", "O">>}

ParamTexts == {<<>>, <<"a">>, <<"b", " ", "c">>}

CommandMessages ==
    {IrcMessage(p, c, ps) :
        p \in {None, Some(localhost)},
        c \in CommandNames,
        ps \in SeqsUpTo(ParamTexts, MaxCommandParams)}

\* replies handed to as_line
ReplyTexts ==
    {<<>>, <<"n", "i", "c", "k">>, <<"u", "s", "e", "r">>,
     <<"h", "o", "s", "t">>, <<"a", " ", ":", "b">>, PASS}

Replies ==
    {RPL_WELCOME(n, u, h) : n \in ReplyTexts, u \in ReplyTexts, h \in ReplyTexts}
    \cup {ERR_UNKNOWNCOMMAND(c) : c \in ReplyTexts}
    \cup {ERR_NEEDMOREPARAMS(c) : c \in ReplyTexts}

----------------------------------------------------------------------------
(* The explored program: one call of one operation on one input.  Init   *)
(* draws the operation and its argument, the action applies it.           *)

Init ==
    /\ pc = "call"
    /\ ret = <<>>
    /\ \/ op = "try_from" /\ arg \in Lines
       \/ op = "to_line" /\ arg \in Messages
       \/ op = "to_command" /\ arg \in CommandMessages
       \/ op = "as_line" /\ arg \in Replies

DoTryFrom ==
    /\ pc = "call"
    /\ op = "try_from"
    /\ ret' = try_from(arg)
    /\ pc' = "done"
    /\ UNCHANGED <<op, arg>>

DoToLine ==
    /\ pc = "call"
    /\ op = "to_line"
    /\ ret' = to_line(arg)
    /\ pc' = "done"
    /\ UNCHANGED <<op, arg>>

DoToCommand ==
    /\ pc = "call"
    /\ op = "to_command"
    /\ ret' = to_command(arg)
    /\ pc' = "done"
    /\ UNCHANGED <<op, arg>>

DoAsLine ==
    /\ pc = "call"
    /\ op = "as_line"
    /\ ret' = as_line(arg)
    /\ pc' = "done"
    /\ UNCHANGED <<op, arg>>

Next ==
    \/ DoTryFrom
    \/ DoToLine
    \/ DoToCommand
    \/ DoAsLine

Spec == Init /\ [][Next]_vars

----------------------------------------------------------------------------
(* Vocabulary of the properties *)

\* a serialized line without its one trailing CRLF, as try_from takes it
WithoutCRLF(s) ==
    IF Len(s) >= 2 /\ SubSeq(s, Len(s) - 1, Len(s)) = <<"\r", "\n">>
    THEN SubSeq(s, 1, Len(s) - 2)
    ELSE s

HasSpace(s) == \E i \in 1..Len(s) : s[i] = " "
StartsWithColon(s) == Len(s) > 0 /\ s[1] = ":"

SerializedNonEmpty ==
    pc = "done" /\ op = "to_line" /\ arg.command_parameters # <<>>

\* a message the wire format can carry: the prefix, the command and every
\* parameter but the last are free of spaces, the prefix is not empty, and
\* nothing but the prefix and the last parameter is introduced by a colon
Representable(m) ==
    /\ m.prefix.some => (m.prefix.val # <<>> /\ ~HasSpace(m.prefix.val))
    /\ ~HasSpace(m.command)
    /\ ~m.prefix.some => ~StartsWithColon(m.command)
    /\ \A i \in 1..(Len(m.command_parameters) - 1) :
           /\ ~HasSpace(m.command_parameters[i])
           /\ ~StartsWithColon(m.command_parameters[i])

\* C1 as stated: every message with parameters survives serialize-then-parse
C1_RoundTripAnyMessage ==
    SerializedNonEmpty => try_from(WithoutCRLF(ret)) = Ok(arg)

\* C1 (amended): a representable message with non-empty parameters
\* survives serialize-then-parse unchanged: same prefix, command, parameters
C1_RoundTripRepresentable ==
    (SerializedNonEmpty /\ Representable(arg))
        => try_from(WithoutCRLF(ret)) = Ok(arg)

C1_Witness ==
    /\ SerializedNonEmpty
    /\ Representable(arg)
    /\ arg.prefix.some
    /\ Len(arg.command_parameters) = 2
    /\ HasSpace(arg.command_parameters[2])
    /\ try_from(WithoutCRLF(ret)) = Ok(arg)

----------------------------------------------------------------------------
(* Positions in a line, read off the line itself *)

Parsed == pc = "done" /\ op = "try_from"

\* offset of the first space at or after `from`, or the length of the line
FirstSpaceFrom(line, from) ==
    LET sps == {i \in from..(Len(line) - 1) : line[i + 1] = " "}
    IN  IF sps = {} THEN Len(line) ELSE Min(sps)

\* where the command begins: after the prefix and its space, or at 0
CommandStart(line) ==
    IF StartsWithColon(line) THEN FirstSpaceFrom(line, 0) + 1 ELSE 0

\* where the command ends: at the next space, or at the end of the line
CommandEnd(line) == FirstSpaceFrom(line, CommandStart(line))

\* the text after the command, its separating space included
AfterCommand(line) == SubSeq(line, CommandEnd(line) + 1, Len(line))

\* offsets of the occurrences of " :" in a text
MarkerOffsets(text) ==
    {i \in 0..(Len(text) - 2) : text[i + 1] = " " /\ text[i + 2] = ":"}

RECURSIVE SpaceJoined(_)
SpaceJoined(ps) ==
    IF Len(ps) = 1 THEN ps[1]
    ELSE ps[1] \o <<" ">> \o SpaceJoined(Tail(ps))

\* ps is text cut at every single space: at least one piece, no piece
\* holds a space, and the pieces joined by single spaces give text back
IsSplitOf(ps, text) ==
    /\ Len(ps) >= 1
    /\ \A i \in 1..Len(ps) : ~HasSpace(ps[i])
    /\ SpaceJoined(ps) = text

\* C2 as stated: a successful parse never yields an empty command (a line
\* with no command text at the command position is a missing-command error)
C2_CommandNeverEmpty ==
    (Parsed /\ ret.ok) => ret.val.command # <<>>

\* C3: when the text after the command holds " :", the FIRST occurrence is
\* the trailing marker: what lies between the command's separating space
\* and the marker is cut at every space into the positional parameters
\* (none when the marker directly follows the command), and everything
\* after the colon is the one last parameter, verbatim
C3_FirstMarkerStartsTrailer ==
    (Parsed /\ ret.ok /\ MarkerOffsets(AfterCommand(arg)) # {}) =>
        LET rest == AfterCommand(arg)
            k == Min(MarkerOffsets(rest))
            ps == ret.val.command_parameters
            n == Len(ps)
        IN  /\ n >= 1
            /\ ps[n] = SubSeq(rest, k + 3, Len(rest))
            /\ k = 0 => n = 1
            /\ k > 0 => IsSplitOf(SubSeq(ps, 1, n - 1), SubSeq(rest, 2, k))

C3_Witness ==
    /\ Parsed /\ ret.ok
    /\ Cardinality(MarkerOffsets(AfterCommand(arg))) = 2
    /\ Len(ret.val.command_parameters) = 2
    /\ HasSpace(ret.val.command_parameters[2])
    /\ ret.val.command # <<>>

\* C4: with no " :" after the command a well-formed line parses, and the
\* parameters are the text after the command's separating space cut at
\* every single space, in order, empty pieces kept; nothing after the
\* command gives no parameters
WellFormedLine(line) ==
    /\ line # <<>>
    /\ StartsWithColon(line) =>
           (FirstSpaceFrom(line, 0) >= 2 /\ FirstSpaceFrom(line, 0) < Len(line))
    /\ CommandEnd(line) > CommandStart(line)

C4_NoMarkerSplitsOnSpaces ==
    (Parsed /\ MarkerOffsets(AfterCommand(arg)) = {}) =>
        /\ WellFormedLine(arg) => ret.ok
        /\ ret.ok =>
            LET rest == AfterCommand(arg)
                ps == ret.val.command_parameters
            IN  /\ rest = <<>> => ps = <<>>
                /\ rest # <<>> => IsSplitOf(ps, SubSeq(rest, 2, Len(rest)))

C4_Witness ==
    /\ Parsed /\ ret.ok /\ WellFormedLine(arg)
    /\ MarkerOffsets(AfterCommand(arg)) = {}
    /\ Len(ret.val.command_parameters) = 3
    /\ ret.val.command_parameters[2] = <<>>
    /\ ret.val.command_parameters[1] # ret.val.command_parameters[3]

C4_WitnessNoParameters ==
    /\ Parsed /\ ret.ok /\ WellFormedLine(arg)
    /\ AfterCommand(arg) = <<>>
    /\ ret.val.command_parameters = <<>>

\* what C5 promises of a line that carries a prefix / carries none
PrefixIsRead ==
    /\ ret.ok
    /\ ret.val.prefix = Some(SubSeq(arg, 2, FirstSpaceFrom(arg, 0)))
    /\ ret.val.prefix.val # <<>>
    /\ ~HasSpace(ret.val.prefix.val)
    /\ ret.val.command =
           SubSeq(arg, FirstSpaceFrom(arg, 0) + 2,
                  FirstSpaceFrom(arg, FirstSpaceFrom(arg, 0) + 1))

NoPrefixIsRead ==
    /\ ret.ok
    /\ ret.val.prefix = None
    /\ ret.val.command = SubSeq(arg, 1, FirstSpaceFrom(arg, 0))

\* C5 as stated: a line that starts with ':' and has a space at SOME
\* offset >= 2 yields the prefix between the colon and the first space
C5_PrefixWhenSomeSpace ==
    (Parsed /\ arg # <<>>) =>
        /\ (StartsWithColon(arg) /\ \E i \in 2..(Len(arg) - 1) : arg[i + 1] = " ")
               => PrefixIsRead
        /\ ~StartsWithColon(arg) => NoPrefixIsRead

\* C5 (amended): a line that starts with ':' and whose FIRST space is at an
\* offset >= 2 yields prefix = the text between the colon and that space
\* (non-empty, no space) and the command is read right after that space; a
\* line that does not start with ':' has no prefix and its command is read
\* from offset 0, even if a ':' occurs later
C5_PrefixWhenFirstSpace ==
    (Parsed /\ arg # <<>>) =>
        /\ (StartsWithColon(arg) /\ FirstSpaceFrom(arg, 0) >= 2
               /\ FirstSpaceFrom(arg, 0) < Len(arg))
               => PrefixIsRead
        /\ ~StartsWithColon(arg) => NoPrefixIsRead

C5_Witness ==
    /\ Parsed /\ StartsWithColon(arg) /\ PrefixIsRead
    /\ Len(ret.val.prefix.val) = 2
    /\ ret.val.command # <<>>
    /\ ret.val.command_parameters # <<>>

C5_WitnessLaterColon ==
    /\ Parsed /\ ~StartsWithColon(arg) /\ NoPrefixIsRead
    /\ \E i \in 2..Len(arg) : arg[i] = ":"
    /\ ret.val.command # <<>>

\* C6: grammar errors are error values and nothing else: the empty line is
\* the empty-message error; a line that starts with ':' and has no space,
\* or whose colon is directly followed by a space, is the prefix error
C6_GrammarErrors ==
    Parsed =>
        /\ arg = <<>> => ret = Err(ErrEmpty)
        /\ (StartsWithColon(arg) /\ ~HasSpace(arg)) => ret = Err(ErrPrefix)
        /\ (StartsWithColon(arg) /\ Len(arg) >= 2 /\ arg[2] = " ")
               => ret = Err(ErrPrefix)

C6_Witness ==
    /\ Parsed /\ ret = Err(ErrPrefix)
    /\ Len(arg) >= 4 /\ arg[2] = " " /\ arg[3] # " " /\ arg[3] # ":"

C6_WitnessNoSpace ==
    /\ Parsed /\ ret = Err(ErrPrefix)
    /\ Len(arg) >= 3 /\ ~HasSpace(arg)

C6_WitnessEmpty ==
    Parsed /\ arg = <<>> /\ ret = Err(ErrEmpty)

----------------------------------------------------------------------------
(* to_command *)

Interpreted == pc = "done" /\ op = "to_command"

\* the names of the required parameters of a recognised command, in order
RequiredNames(command) ==
    IF command = PASS THEN <<"password">>
    ELSE IF command = NICK THEN <<"nick">>
    ELSE <<"user", "mode", "unused", "realname">>

TagOf(command) ==
    IF command = PASS THEN "PASS"
    ELSE IF command = NICK THEN "NICK"
    ELSE "USER"

\* C7: a command that is not exactly PASS, NICK or USER (case matters, the
\* empty command included) gives the UnknownCommand error carrying the
\* command text unchanged, whatever the parameters are
C7_UnknownCommand ==
    (Interpreted /\ arg.command \notin {PASS, NICK, USER}) =>
        ret = [ok |-> FALSE,
               err |-> [kind |-> "UnknownCommand", command |-> arg.command]]

C7_Witness ==
    /\ Interpreted
    /\ arg.command = <<"U", "S", "E", "R", "S">>
    /\ Len(arg.command_parameters) = 4
    /\ ret.ok = FALSE
    /\ ret.err.kind = "UnknownCommand"

C7_WitnessLowerCase ==
    /\ Interpreted
    /\ arg.command = <<"p", "a", "s", "s">>
    /\ arg.command_parameters # <<>>
    /\ ~ret.ok

\* C8: no partial success: PASS, NICK and USER need k = 1, 1, 4 parameters;
\* with n >= k parameters the result is the command built from the first k
\* in order (the others ignored), with n < k it is MissingParameter naming
\* the command, index n and the n-th required name
C8_AllOrFirstMissing ==
    (Interpreted /\ arg.command \in {PASS, NICK, USER}) =>
        LET names == RequiredNames(arg.command)
            k == Len(names)
            n == Len(arg.command_parameters)
        IN  /\ n >= k =>
                ret = [ok |-> TRUE,
                       val |-> [tag |-> TagOf(arg.command),
                                fields |-> SubSeq(arg.command_parameters, 1, k)]]
            /\ n < k =>
                ret = [ok |-> FALSE,
                       err |-> [kind |-> "MissingCommandParameter",
                                command |-> arg.command,
                                parameter |-> names[n + 1],
                                index |-> n]]

C8_Witness ==
    /\ Interpreted /\ arg.command = USER
    /\ Len(arg.command_parameters) = 2
    /\ ~ret.ok
    /\ ret.err.parameter = "unused"
    /\ ret.err.index = 2

C8_WitnessExtraParameters ==
    /\ Interpreted /\ arg.command = USER
    /\ Len(arg.command_parameters) = 5
    /\ ret.ok
    /\ Len(ret.val.fields) = 4
    /\ ret.val.fields[1] # ret.val.fields[4]

----------------------------------------------------------------------------
(* Reply::as_line *)

Rendered == pc = "done" /\ op = "as_line"

ReplyCode(r) ==
    CASE r.tag = "RPL_WELCOME" -> <<"0", "0", "1">>
      [] r.tag = "ERR_UNKNOWNCOMMAND" -> <<"4", "2", "1">>
      [] r.tag = "ERR_NEEDMOREPARAMS" -> <<"4", "6", "1">>

ReplyText(r) ==
    CASE r.tag = "RPL_WELCOME" ->
            WelcomeText \o r.fields[1] \o <<"!">> \o r.fields[2] \o <<"@">>
                \o r.fields[3]
      [] r.tag = "ERR_UNKNOWNCOMMAND" -> UnknownCommandText
      [] r.tag = "ERR_NEEDMOREPARAMS" -> NotEnoughParametersText

\* C9: every reply renders as ":localhost <code> <p0> :<text>\r\n" with
\* code 001 / 421 / 461, p0 the nick or the offending command, and the
\* text of the variant
C9_ReplyLine ==
    Rendered =>
        ret = <<":">> \o localhost \o <<" ">> \o ReplyCode(arg) \o <<" ">>
                \o arg.fields[1] \o <<" ", ":">> \o ReplyText(arg)
                \o <<"\r", "\n">>

\* ":localhost 001 nick :Welcome to the network nick!user@host\r\n"
WelcomeExampleLine ==
    <<":", "l", "o", "c", "a", "l", "h", "o", "s", "t", " ", "0", "0", "1",
      " ", "n", "i", "c", "k", " ", ":", "W", "e", "l", "c", "o", "m", "e",
      " ", "t", "o", " ", "t", "h", "e", " ", "n", "e", "t", "w", "o", "r",
      "k", " ", "n", "i", "c", "k", "!", "u", "s", "e", "r", "@", "h", "o",
      "s", "t", "\r", "\n">>

C9_Witness ==
    /\ Rendered
    /\ arg = RPL_WELCOME(<<"n", "i", "c", "k">>, <<"u", "s", "e", "r">>,
                         <<"h", "o", "s", "t">>)
    /\ ret = WelcomeExampleLine

C9_WitnessNeedMoreParams ==
    /\ Rendered
    /\ arg = ERR_NEEDMOREPARAMS(PASS)
    /\ SubSeq(ret, 12, 19) = <<"4", "6", "1", " ", "P", "A", "S", "S">>

----------------------------------------------------------------------------
(* IrcMessage::to_line *)

Serialized == pc = "done" /\ op = "to_line"

RECURSIVE Flatten(_)
Flatten(pieces) ==
    IF pieces = <<>> THEN <<>> ELSE Head(pieces) \o Flatten(Tail(pieces))

\* the i-th parameter on the wire: a space, a colon for the last one only
WireParameter(m, i) ==
    <<" ">> \o (IF i = Len(m.command_parameters) THEN <<":">> ELSE <<>>)
            \o m.command_parameters[i]

\* C10: the line is ":" prefix " " exactly when a prefix is present, then
\* the command, then every parameter preceded by one space, the last (and
\* only the last) also by ":", whether or not it holds a space, then one
\* CRLF; with no parameters nothing stands between the command and CRLF
C10_LineLayout ==
    Serialized =>
        ret = (IF arg.prefix.some
               THEN <<":">> \o arg.prefix.val \o <<" ">> ELSE <<>>)
              \o arg.command
              \o Flatten([i \in 1..Len(arg.command_parameters)
                             |-> WireParameter(arg, i)])
              \o <<"\r", "\n">>

C10_Witness ==
    /\ Serialized
    /\ arg.prefix.some
    /\ Len(arg.command_parameters) = 2
    /\ ~HasSpace(arg.command_parameters[2])
    /\ arg.command_parameters[2] # <<>>
    /\ arg.command # <<>>
    /\ ret[Len(ret) - Len(arg.command_parameters[2]) - 2] = ":"

C10_WitnessNoParameters ==
    /\ Serialized
    /\ ~arg.prefix.some
    /\ arg.command_parameters = <<>>
    /\ ret = arg.command \o <<"\r", "\n">>
    /\ arg.command # <<>>

----------------------------------------------------------------------------
(* try_from after to_line after try_from *)

\* C11: whenever a line parses to a message m, the line serialized from m,
\* without its CRLF, parses again and to the same m (prefix, command and
\* parameters), also when that line differs from the one first read
C11_ReparseIsStable ==
    (Parsed /\ ret.ok) => try_from(WithoutCRLF(to_line(ret.val))) = ret

C11_Witness ==
    /\ Parsed /\ ret.ok
    /\ MarkerOffsets(AfterCommand(arg)) = {}
    /\ Len(ret.val.command_parameters) = 2
    /\ ret.val.command_parameters[2] # <<>>
    /\ ret.val.prefix.some
    /\ to_line(ret.val) # arg \o <<"\r", "\n">>
    /\ try_from(WithoutCRLF(to_line(ret.val))) = ret

C11_WitnessEmptyCommand ==
    /\ Parsed /\ ret.ok
    /\ ret.val.command = <<>>
    /\ ret.val.command_parameters # <<>>
    /\ try_from(WithoutCRLF(to_line(ret.val))) = ret

C11_WitnessSameLine ==
    /\ Parsed /\ ret.ok
    /\ Len(ret.val.command_parameters) = 2
    /\ HasSpace(ret.val.command_parameters[2])
    /\ to_line(ret.val) = arg \o <<"\r", "\n">>

----------------------------------------------------------------------------
(* try_from is total *)

InRange(sl, line) == 0 <= sl.lo /\ sl.lo <= sl.hi /\ sl.hi <= Len(line)

IsMessage(m) ==
    /\ DOMAIN m = {"prefix", "command", "command_parameters"}
    /\ m.prefix.some \in BOOLEAN
    /\ m.command \in Seq(Chars)
    /\ \A i \in 1..Len(m.command_parameters) :
           m.command_parameters[i] \in Seq(Chars)

\* C12: for every line try_from returns a message or an error value, and
\* every range it slices the line with satisfies 0 <= start <= end <= length
\* of the line; the command returned is the text of the range line 102 took
C12_TotalAndInBounds ==
    Parsed =>
        /\ \/ DOMAIN ret = {"ok", "val"} /\ ret.ok /\ IsMessage(ret.val)
           \/ DOMAIN ret = {"ok", "err"} /\ ~ret.ok
                /\ ret.err \in {ErrEmpty, ErrPrefix}
        /\ \A sl \in try_from_slices(arg) : InRange(sl, arg)
        /\ ret.ok =>
               \E sl \in try_from_slices(arg) :
                   /\ sl.line = 102
                   /\ ret.val.command = SubSeq(arg, sl.lo + 1, sl.hi)

\* a line ending in " :" : the trailer range is empty, at the end of the line
C12_Witness ==
    /\ Parsed /\ ret.ok
    /\ Len(arg) >= 3
    /\ arg[Len(arg) - 1] = " " /\ arg[Len(arg)] = ":"
    /\ Range(118, Len(arg), Len(arg)) \in try_from_slices(arg)
    /\ ret.val.command_parameters[Len(ret.val.command_parameters)] = <<>>

\* a line ending right after its prefix: the command range is empty
C12_WitnessEndsAfterPrefix ==
    /\ Parsed /\ ret.ok
    /\ StartsWithColon(arg)
    /\ FirstSpaceFrom(arg, 0) = Len(arg) - 1
    /\ Range(102, Len(arg), Len(arg)) \in try_from_slices(arg)

\* a line made of spaces only, and one made of colons only
C12_WitnessOnlySpaces ==
    /\ Parsed /\ ret.ok
    /\ Len(arg) = MaxLineLen
    /\ \A i \in 1..Len(arg) : arg[i] = " "
    /\ Cardinality(try_from_slices(arg)) = 4

C12_WitnessOnlyColons ==
    /\ Parsed /\ ~ret.ok
    /\ Len(arg) = MaxLineLen
    /\ \A i \in 1..Len(arg) : arg[i] = ":"
    /\ try_from_slices(arg) = {Range(78, 1, Len(arg))}

====
